---------------------------- MODULE Spec2Model ----------------------------
(***************************************************************************)
(* A model of the Browsary Cloud client: the UUID/base62 codec             *)
(* (src/lib/base62.ts), the HTTP response handlers, the service-URL        *)
(* construction of BrowserClient and the acquire/release protocol of       *)
(* RemoteBrowserProvider (src/lib/index.ts).                               *)
(*                                                                         *)
(* Strings the code inspects character by character are sequences of      *)
(* one-character strings.  A BigInt is a normalised big-endian sequence of *)
(* base-16 digits (no leading zero, zero is the empty sequence), so that   *)
(* 128-bit values are computed exactly.                                    *)
(***************************************************************************)
EXTENDS Integers, Sequences, FiniteSets, TLC

VARIABLES
    codec,          \* the codec round trip in progress
    http,           \* the response being decoded by a response handler
    baseUrl,        \* BrowserClient.#baseUrl
    server,         \* the remote server's topology: proxy, secure, ip, up
    call,           \* the BrowserClient call in progress
    lastInfo,       \* the ServerInfo most recently delivered to the client
    defaultCfg,     \* RemoteBrowserProvider.#default
    calls,          \* the getBrowser executions in progress
    clients,        \* RemoteBrowserProvider.#clients
    browsers,       \* every browser handle: unborn, connected, dropped by
                    \* the remote end, or closed / disconnected by a release
    byName          \* the handles some name-only acquisition has returned

vars == <<codec, http, baseUrl, server, call, lastInfo, defaultCfg, calls,
          clients, browsers, byName>>

None == "none"

(***************************************************************************)
(*                          src/lib/base62.ts                              *)
(***************************************************************************)

BASE62_ALPHABET ==
    << "0","1","2","3","4","5","6","7","8","9",
       "A","B","C","D","E","F","G","H","I","J","K","L","M",
       "N","O","P","Q","R","S","T","U","V","W","X","Y","Z",
       "a","b","c","d","e","f","g","h","i","j","k","l","m",
       "n","o","p","q","r","s","t","u","v","w","x","y","z" >>

BASE == 62

UuidHexLen == 32

HexLower == << "0","1","2","3","4","5","6","7","8","9","a","b","c","d","e","f" >>

HexUpper == << "0","1","2","3","4","5","6","7","8","9","A","B","C","D","E","F" >>

\* String.prototype.indexOf on a one-character needle: 0-based, -1 if absent.
indexOf(alphabet, char) ==
    IF \E i \in 1..Len(alphabet) : alphabet[i] = char
    THEN (CHOOSE i \in 1..Len(alphabet) :
             alphabet[i] = char /\ \A j \in 1..(i-1) : alphabet[j] # char) - 1
    ELSE -1

\* The value of one hexadecimal digit as BigInt("0x...") reads it (either case).
HexVal(char) ==
    IF indexOf(HexLower, char) >= 0 THEN indexOf(HexLower, char)
    ELSE indexOf(HexUpper, char)

RECURSIVE Norm(_)
Norm(ds) == IF ds # <<>> /\ ds[1] = 0 THEN Norm(Tail(ds)) ELSE ds

\* num % BASE and num / BASE on a BigInt: long division, digit by digit.
RECURSIVE LongDiv(_, _, _, _)
LongDiv(ds, i, r, q) ==
    IF i > Len(ds) THEN [quot |-> Norm(q), rem |-> r]
    ELSE LET cur == r * 16 + ds[i]
         IN  LongDiv(ds, i + 1, cur % BASE, Append(q, cur \div BASE))

\* num * BASE + BigInt(index) on a BigInt: from the last digit, with carry.
RECURSIVE MulAdd(_, _, _, _)
MulAdd(ds, i, carry, out) ==
    IF i = 0
    THEN IF carry = 0 THEN Norm(out)
         ELSE MulAdd(ds, 0, carry \div 16, <<carry % 16>> \o out)
    ELSE LET cur == ds[i] * BASE + carry
         IN  MulAdd(ds, i - 1, cur \div 16, <<cur % 16>> \o out)

\* uuid.replace(/-/g, "")
StripHyphens(uuid) == SelectSeq(uuid, LAMBDA c : c # "-")

\* BigInt("0x" + hex)
ParseHex(hex) == Norm([i \in 1..Len(hex) |-> HexVal(hex[i])])

\* BigInt.prototype.toString(16): lower-case digits, "0" for zero.
toString16(num) ==
    IF num = <<>> THEN <<"0">> ELSE [i \in 1..Len(num) |-> HexLower[num[i] + 1]]

padStart_none(s, n, c) == s

\* String.prototype.padStart
padStart(s, n, c) ==
    IF Len(s) >= n THEN s ELSE [i \in 1..(n - Len(s)) |-> c] \o s

\* String.prototype.slice(from, to) with 0-based, non-negative bounds.
slice(s, from, to) ==
    LET hi == IF to > Len(s) THEN Len(s) ELSE to
    IN  IF from >= hi THEN <<>> ELSE SubSeq(s, from + 1, hi)

RECURSIVE EncodeLoop(_, _)
EncodeLoop(num, result) ==
    IF num = <<>> THEN result
    ELSE LET dm == LongDiv(num, 1, 0, <<>>)
         IN  EncodeLoop(dm.quot, <<BASE62_ALPHABET[dm.rem + 1]>> \o result)

InvalidUuid == <<"Invalid UUID format">>

encodeUuidToBase62(uuid) ==
    LET hex == StripHyphens(uuid)
    IN  IF Len(hex) # UuidHexLen THEN InvalidUuid
        ELSE LET result == EncodeLoop(ParseHex(hex), <<>>)
             IN  IF result = <<>> THEN <<"0">> ELSE result

RECURSIVE DecodeLoop(_, _, _)
DecodeLoop(base62, i, num) ==
    IF i > Len(base62) THEN [ok |-> TRUE, num |-> num]
    ELSE LET index == indexOf(BASE62_ALPHABET, base62[i])
         IN  IF index = -1 THEN [ok |-> FALSE, num |-> num]
             ELSE DecodeLoop(base62, i + 1, MulAdd(num, Len(num), index, <<>>))

InvalidBase62 == <<"Invalid base62 character">>

decodeBase62ToUuid(base62) ==
    LET r == DecodeLoop(base62, 1, <<>>)
    IN  IF ~r.ok THEN InvalidBase62
        ELSE LET hex == padStart(toString16(r.num), UuidHexLen, "0")
             IN  slice(hex, 0, 8) \o <<"-">> \o slice(hex, 8, 12) \o <<"-">>
                 \o slice(hex, 12, 16) \o <<"-">> \o slice(hex, 16, 20)
                 \o <<"-">> \o slice(hex, 20, Len(hex))


(***************************************************************************)
(*              src/lib/index.ts: the response handlers                    *)
(***************************************************************************)

\* ServerInfo.proxy, absent.
NoProxy == [present |-> FALSE, suffix |-> ""]

\* The fields of ServerInfo the client reads.
ServerInfo(proxy, secure, ip) == [proxy |-> proxy, secure |-> secure, ip |-> ip]

NoInfo == ServerInfo(NoProxy, FALSE, None)

\* A JSON.parse result: ok is FALSE when the text is no JSON (a SyntaxError);
\* t is the parsed value's type; error is its "error" member, None if it has
\* none; info is the value itself when it is a ServerInfo.
Unparsable == [ok |-> FALSE, t |-> None, error |-> None, info |-> NoInfo]

JsonObject(error, info) == [ok |-> TRUE, t |-> "object", error |-> error, info |-> info]

JsonNull == [ok |-> TRUE, t |-> "null", error |-> None, info |-> NoInfo]

\* A response body: the text on the wire and what JSON.parse makes of it.
Body(raw, parse) == [raw |-> raw, parse |-> parse]

Bodies ==
    { Body("{\"error\":\"boom\"}", JsonObject("boom", NoInfo)),
      Body("{\"error\":\"no such container\"}", JsonObject("no such container", NoInfo)),
      Body("{}", JsonObject(None, NoInfo)),
      Body("null", JsonNull),
      Body("Bad Gateway", Unparsable),
      Body("", Unparsable) }

ContentTypes ==
    { <<>>,
      <<"application/json">>,
      <<"application/json", "; charset=utf-8">>,
      <<"text/plain">>,
      <<"text/html", "; charset=utf-8">> }

Statuses == {200, 204, 299, 300, 404, 500}

Response(status, ctype, body) == [status |-> status, ctype |-> ctype, body |-> body]

\* Response.ok
ok(response) == response.status >= 200 /\ response.status <= 299

\* response.headers.get("content-type")?.startsWith("application/json"):
\* a content type is its media type followed by its parameters.
startsWithJson(ctype) == Len(ctype) > 0 /\ ctype[1] = "application/json"

NoUrl == [scheme |-> "", username |-> "", hostname |-> "", port |-> ""]

\* What a call ends with: a value, or a thrown error of some class.
Outcome(kind, message, url, info) ==
    [kind |-> kind, message |-> message, url |-> url, info |-> info]

Threw(kind, message) == Outcome(kind, message, NoUrl, NoInfo)

Pending == Outcome("pending", "", NoUrl, NoInfo)

\* new Error(message).message: undefined gives the empty message.
ErrorMessage(error) == IF error = None THEN "" ELSE error

handleError(response) ==
    IF ~startsWithJson(response.ctype)
    THEN Threw("BrowserClientError", response.body.raw)
    ELSE LET json == response.body.parse
         IN  IF ~json.ok THEN Threw("SyntaxError", "Unexpected token")
             ELSE IF json.t = "null"
                  THEN Threw("TypeError", "Cannot destructure property 'error'")
                  ELSE Threw("BrowserClientError", ErrorMessage(json.error))

handleJsonResponse(response) ==
    IF ok(response)
    THEN IF response.body.parse.ok
         THEN Outcome("value", "", NoUrl, response.body.parse.info)
         ELSE Threw("SyntaxError", "Unexpected token")
    ELSE handleError(response)

handleStreamResponse(response) ==
    IF ok(response)
    THEN Outcome("stream", response.body.raw, NoUrl, NoInfo)
    ELSE handleError(response)

Handlers == {"json", "stream"}

Handle(handler, response) ==
    IF handler = "json" THEN handleJsonResponse(response)
    ELSE handleStreamResponse(response)

HttpIdle == [pc |-> "idle", handler |-> "json",
             response |-> Response(200, <<>>, Body("", Unparsable)),
             outcome |-> Pending]

\* A response arrives for a JSON-returning or a stream-returning call.
HttpReceive ==
    /\ http.pc \in {"idle", "done"}
    /\ \E h \in Handlers, st \in Statuses, ct \in ContentTypes, b \in Bodies :
          http' = [pc |-> "received", handler |-> h,
                   response |-> Response(st, ct, b), outcome |-> Pending]
    /\ UNCHANGED <<codec, baseUrl, server, call, lastInfo, defaultCfg, calls,
                   clients, browsers, byName>>

\* The handler decodes it.
HttpHandle ==
    /\ http.pc = "received"
    /\ http' = [http EXCEPT !.pc = "done",
                            !.outcome = Handle(http.handler, http.response)]
    /\ UNCHANGED <<codec, baseUrl, server, call, lastInfo, defaultCfg, calls,
                   clients, browsers, byName>>

(***************************************************************************)
(*       The URL class (WHATWG URL Standard) as index.ts uses it           *)
(***************************************************************************)

Url(scheme, username, hostname, port) ==
    [scheme |-> scheme, username |-> username, hostname |-> hostname, port |-> port]

SpecialSchemes == {"ftp", "file", "http", "https", "ws", "wss"}

DefaultPort(scheme) ==
    CASE scheme \in {"http", "ws"} -> "80"
      [] scheme \in {"https", "wss"} -> "443"
      [] scheme = "ftp" -> "21"
      [] OTHER -> ""

\* url.hostname = value, for a valid host.
setHostname(url, value) == [url EXCEPT !.hostname = value]

\* url.port = value: the scheme's default port is stored as no port.
setPort(url, value) ==
    IF url.hostname = "" \/ url.scheme = "file" THEN url
    ELSE IF value = DefaultPort(url.scheme) THEN [url EXCEPT !.port = ""]
    ELSE [url EXCEPT !.port = value]

\* url.protocol = scheme + ":": a special scheme never becomes a non-special
\* one nor the reverse; a port that is the new scheme's default is dropped.
setProtocol(url, scheme) ==
    IF (url.scheme \in SpecialSchemes) # (scheme \in SpecialSchemes) THEN url
    ELSE IF scheme = "file" /\ (url.username # "" \/ url.port # "") THEN url
    ELSE IF url.scheme = "file" /\ url.hostname = "" THEN url
    ELSE [url EXCEPT !.scheme = scheme,
                     !.port = IF url.port = DefaultPort(scheme) THEN "" ELSE url.port]

\* url.username = value
setUsername(url, value) ==
    IF url.hostname = "" \/ url.scheme = "file" THEN url
    ELSE [url EXCEPT !.username = value]

\* new URL(`${scheme}://${host}`), for a valid lower-case host without a port.
ParseUrl(scheme, host) == Url(scheme, "", host, "")

\* The port a connection to the URL uses.
EffectivePort(url) == IF url.port = "" THEN DefaultPort(url.scheme) ELSE url.port


(***************************************************************************)
(*                 src/lib/index.ts: BrowserClient                         *)
(***************************************************************************)

BaseUrls ==
    { Url("http", "", "localhost", "39029"),
      Url("http", "", "localhost", ""),
      Url("https", "", "cloud.example.com", "") }

ProxySuffix == ".browsers.example.com"

Proxies == { NoProxy, [present |-> TRUE, suffix |-> ProxySuffix] }

DirectIp == "10.0.0.5"

\* What the server is at a moment: its ServerInfo, and whether it answers.
ServerStates ==
    [info : { ServerInfo(p, sec, ip) :
                 p \in Proxies, sec \in BOOLEAN, ip \in {None, DirectIp} },
     up : BOOLEAN]

Services(vnc, remote, ssh) == [vnc |-> vnc, remote |-> remote, ssh |-> ssh]

Container(name, password, services) ==
    [name |-> name, password |-> password, services |-> services]

Containers ==
    { Container("box", "pw", Services("5900", "9222", "22")),
      Container("web", "pw", Services("443", "80", "2222")),
      Container("dev", "pw", Services("80", "443", "22")) }

NoContainer == Container("", "", Services("", "", ""))

Returned(url) == Outcome("url", "", url, NoInfo)

\* The server's answer to GET /.
InfoResponse(srv) ==
    IF srv.up
    THEN Response(200, <<"application/json">>,
                  Body("<ServerInfo>", JsonObject(None, srv.info)))
    ELSE Response(503, <<"text/plain">>, Body("Service Unavailable", Unparsable))

\* The server's answer to GET /scores.
ScoresResponse(srv) ==
    IF srv.up
    THEN Response(200, <<"application/json">>,
                  Body("<ScoreBreakdownResponse>", JsonObject(None, NoInfo)))
    ELSE Response(503, <<"text/plain">>, Body("Service Unavailable", Unparsable))

NoResponse == Response(0, <<>>, Body("", Unparsable))

serverInfo_cached ==
    IF lastInfo.seen THEN Outcome("value", "", NoUrl, lastInfo.info)
    ELSE handleJsonResponse(call.response)

\* await this.serverInfo(): the decoded answer to this call's GET /.
serverInfo == handleJsonResponse(call.response)

\* assertNonNull(info.ip, "info.ip") fails
IpMissing == Threw("Error", "info.ip")

vncUrl(info, container) ==
    IF info.proxy.present
    THEN Returned(ParseUrl(IF info.secure THEN "wss" ELSE "ws",
                           "vnc-" \o container.name \o info.proxy.suffix))
    ELSE IF info.ip = None THEN IpMissing
    ELSE Returned(setProtocol(
                    setPort(setHostname(baseUrl, info.ip), container.services.vnc),
                    IF info.secure THEN "wss" ELSE "ws"))

remoteUrl(info, container) ==
    IF info.proxy.present
    THEN Returned(ParseUrl(IF info.secure THEN "https" ELSE "http",
                           "remote-" \o container.password \o "-"
                               \o container.name \o info.proxy.suffix))
    ELSE IF info.ip = None THEN IpMissing
    ELSE Returned(setProtocol(
                    setPort(setHostname(baseUrl, info.ip), container.services.remote),
                    IF info.secure THEN "https" ELSE "http"))

sshUrl(info, container) ==
    IF info.proxy.present
    THEN Threw("Error", "SSH access is not available via proxy")
    ELSE IF info.ip = None THEN IpMissing
    ELSE Returned(setUsername(
                    setProtocol(
                      setPort(setHostname(baseUrl, info.ip), container.services.ssh),
                      "ssh"),
                    "runner"))

UrlOps == {"vncUrl", "remoteUrl", "sshUrl"}

ClientOps == UrlOps \cup {"serverScores"}

UrlPolicy(op, info, container) ==
    CASE op = "vncUrl" -> vncUrl(info, container)
      [] op = "remoteUrl" -> remoteUrl(info, container)
      [] OTHER -> sshUrl(info, container)

CallIdle == [op |-> "vncUrl", container |-> NoContainer, pc |-> "idle",
             reqs |-> <<>>, response |-> NoResponse, outcome |-> Pending]

NothingSeen == [seen |-> FALSE, info |-> NoInfo]

\* What the client has last been told: the previous call's ServerInfo, if it
\* got one.
Delivered ==
    IF call.pc = "done" /\ handleJsonResponse(call.response).kind = "value"
    THEN [seen |-> TRUE, info |-> handleJsonResponse(call.response).info]
    ELSE lastInfo

NotClient == <<codec, http, baseUrl, defaultCfg, calls, clients, browsers, byName>>

\* vncUrl, remoteUrl, sshUrl or serverScores is called: each begins with
\* this.serverInfo(), which issues GET / at once.
Invoke(op, container) ==
    /\ call.pc \in {"idle", "done"}
    /\ call' = [op |-> op, container |-> container, pc |-> "awaitInfo",
                reqs |-> <<"GET /">>, response |-> NoResponse, outcome |-> Pending]
    /\ lastInfo' = Delivered
    /\ UNCHANGED <<server>>
    /\ UNCHANGED NotClient

\* The server answers GET / with what it is at that moment.
ServerInfoRespond ==
    /\ call.pc = "awaitInfo"
    /\ call' = [call EXCEPT !.pc = "gotInfo", !.response = InfoResponse(server)]
    /\ UNCHANGED <<server, lastInfo>>
    /\ UNCHANGED NotClient

\* vncUrl / remoteUrl / sshUrl resume after await this.serverInfo().
UrlResume ==
    /\ call.pc = "gotInfo"
    /\ call.op \in UrlOps
    /\ call' = [call EXCEPT
                  !.pc = "done",
                  !.outcome = IF serverInfo.kind # "value" THEN serverInfo
                              ELSE UrlPolicy(call.op, serverInfo.info, call.container)]
    /\ UNCHANGED <<server, lastInfo>>
    /\ UNCHANGED NotClient

serverScoresResume_fetchFirst ==
    /\ call.pc = "gotInfo"
    /\ call.op = "serverScores"
    /\ call' = IF serverInfo.kind # "value"
               THEN [call EXCEPT !.pc = "done", !.outcome = serverInfo]
               ELSE IF ~serverInfo.info.proxy.present
               THEN [call EXCEPT !.pc = "done",
                                 !.reqs = Append(call.reqs, "GET /scores"),
                                 !.outcome = Threw("Error",
                                     "This server does not support proxy scores.")]
               ELSE [call EXCEPT !.pc = "awaitScores",
                                 !.reqs = Append(call.reqs, "GET /scores")]
    /\ UNCHANGED <<server, lastInfo>>
    /\ UNCHANGED NotClient

\* serverScores resumes after await this.serverInfo().
serverScoresResume ==
    /\ call.pc = "gotInfo"
    /\ call.op = "serverScores"
    /\ call' = IF serverInfo.kind # "value"
               THEN [call EXCEPT !.pc = "done", !.outcome = serverInfo]
               ELSE IF ~serverInfo.info.proxy.present
               THEN [call EXCEPT !.pc = "done",
                                 !.outcome = Threw("Error",
                                     "This server does not support proxy scores.")]
               ELSE [call EXCEPT !.pc = "awaitScores",
                                 !.reqs = Append(call.reqs, "GET /scores")]
    /\ UNCHANGED <<server, lastInfo>>
    /\ UNCHANGED NotClient

\* The server answers GET /scores and serverScores returns.
ScoresRespond ==
    /\ call.pc = "awaitScores"
    /\ call' = [call EXCEPT !.pc = "done",
                            !.outcome = handleJsonResponse(ScoresResponse(server))]
    /\ UNCHANGED <<server, lastInfo>>
    /\ UNCHANGED NotClient

\* The topology changes: proxy, secure, ip, or the server goes down or up.
ServerChange ==
    /\ \E s \in ServerStates : s # server /\ server' = s
    /\ UNCHANGED <<call, lastInfo>>
    /\ UNCHANGED NotClient


(***************************************************************************)
(*             src/lib/index.ts: RemoteBrowserProvider                     *)
(***************************************************************************)

MaxCalls == 1

MaxHandles == 2

Calls == 1..MaxCalls

Handles == 1..MaxHandles

NoHandle == 0

\* A RemoteBrowserConfig is an object: the property names it has, and its name.
Config(keys, name) == [keys |-> keys, name |-> name]

NameOnly(name) == Config({"name"}, name)

CreateDetails(name) == Config({"password", "screen", "name", "args", "image"}, name)

\* getBrowser() without an argument
NoConfig == Config({}, "")

\* The configs given to the constructor as default, and to getBrowser.
DefaultConfigs == { NameOnly("web"), CreateDetails("web") }

ArgConfigs == { NoConfig, NameOnly("box"), CreateDetails("box") }

CoordinatorUrl == "https://coordinator.example.com/"

\* What the server may be when getBrowser's GET / reaches it.
ProviderServers ==
    { [info |-> ServerInfo(NoProxy, FALSE, DirectIp), up |-> TRUE],
      [info |-> ServerInfo(NoProxy, FALSE, None), up |-> TRUE],
      [info |-> ServerInfo(NoProxy, FALSE, DirectIp), up |-> FALSE] }

shouldClose_fromDefault(config) == "args" \in defaultCfg.keys

\* const shouldClose = "args" in config
shouldClose(config) == "args" \in config.keys

\* config ??= this.#default
Effective(arg) == IF arg = NoConfig THEN defaultCfg ELSE arg

\* The request that resolves the container: client.create or client.get.
ResolveRequest(config) ==
    IF "args" \in config.keys
    THEN [op |-> "create", name |-> config.name,
          keys |-> config.keys \cup {"coordinatorUrl"},
          coordinatorUrl |-> CoordinatorUrl]
    ELSE [op |-> "get", name |-> config.name, keys |-> {}, coordinatorUrl |-> ""]

NoRequest == [op |-> "", name |-> "", keys |-> {}, coordinatorUrl |-> ""]

\* The container metadata the server returns for a name.
ContainerNamed(name) == CHOOSE c \in Containers : c.name = name

NoWait == <<>>

\* An execution of getBrowser: where it is, and its locals.  One that has
\* returned keeps the handle it returned; one that has rejected keeps nothing.
CallNew == [pc |-> "idle", arg |-> NoConfig, shouldClose |-> FALSE,
            request |-> NoRequest, container |-> NoContainer, url |-> NoUrl,
            waitArgs |-> NoWait, factoryUrl |-> NoUrl, handle |-> NoHandle,
            trace |-> <<>>]

NotProvider == <<codec, http, baseUrl, server, call, lastInfo, defaultCfg>>

\* Browser.connected
connected(h) == browsers[h] = "connected"

\* getBrowser(config?) up to its first await: the effective config, the
\* release mode, and the create or get request.
GetBrowser(i, arg) ==
    /\ calls[i].pc \in {"idle", "done", "failed"}
    /\ LET config == Effective(arg)
       IN  calls' = [calls EXCEPT ![i] =
                       [CallNew EXCEPT !.pc = "resolving",
                                       !.arg = arg,
                                       !.shouldClose = shouldClose(config),
                                       !.request = ResolveRequest(config),
                                       !.trace = <<ResolveRequest(config).op>>]]
    /\ UNCHANGED <<clients, browsers, byName>>
    /\ UNCHANGED NotProvider

\* create / get returns the container and client.remoteUrl(container) starts
\* with its GET /; or the request fails and getBrowser rejects.
ResolveReturn(i, found) ==
    /\ calls[i].pc = "resolving"
    /\ calls' = [calls EXCEPT ![i] =
                   IF found
                   THEN [@ EXCEPT !.pc = "locating",
                                  !.container = ContainerNamed(calls[i].request.name),
                                  !.trace = Append(calls[i].trace, "remoteUrl")]
                   ELSE [CallNew EXCEPT !.pc = "failed"]]
    /\ UNCHANGED <<clients, browsers, byName>>
    /\ UNCHANGED NotProvider

RemoteUrlReturn_noWait(i, srv) ==
    /\ calls[i].pc = "locating"
    /\ LET info == handleJsonResponse(InfoResponse(srv))
           res  == IF info.kind # "value" THEN info
                   ELSE remoteUrl(info.info, calls[i].container)
       IN  calls' = [calls EXCEPT ![i] =
                       IF res.kind = "url"
                       THEN [@ EXCEPT !.pc = "connecting",
                                      !.url = res.url,
                                      !.factoryUrl = res.url,
                                      !.trace = Append(calls[i].trace, "fromFactory")]
                       ELSE [CallNew EXCEPT !.pc = "failed"]]
    /\ UNCHANGED <<clients, browsers, byName>>
    /\ UNCHANGED NotProvider

\* client.remoteUrl returns the URL and coordinator.waitForServiceStatus is
\* called; or remoteUrl fails and getBrowser rejects.
RemoteUrlReturn(i, srv) ==
    /\ calls[i].pc = "locating"
    /\ LET info == handleJsonResponse(InfoResponse(srv))
           res  == IF info.kind # "value" THEN info
                   ELSE remoteUrl(info.info, calls[i].container)
       IN  calls' = [calls EXCEPT ![i] =
                       IF res.kind = "url"
                       THEN [@ EXCEPT !.pc = "waiting",
                                      !.url = res.url,
                                      !.waitArgs = <<Effective(calls[i].arg).name,
                                                     "remote", "running">>,
                                      !.trace = Append(calls[i].trace,
                                                       "waitForServiceStatus")]
                       ELSE [CallNew EXCEPT !.pc = "failed"]]
    /\ UNCHANGED <<clients, browsers, byName>>
    /\ UNCHANGED NotProvider

\* The coordinator's wait completes and this.fromFactory(remoteUrl) is called;
\* or the wait fails and getBrowser rejects.
WaitReturn(i, running) ==
    /\ calls[i].pc = "waiting"
    /\ calls' = [calls EXCEPT ![i] =
                   IF running
                   THEN [@ EXCEPT !.pc = "connecting",
                                  !.factoryUrl = calls[i].url,
                                  !.trace = Append(Append(calls[i].trace, "running"),
                                                   "fromFactory")]
                   ELSE [CallNew EXCEPT !.pc = "failed"]]
    /\ UNCHANGED <<clients, browsers, byName>>
    /\ UNCHANGED NotProvider

\* The browser factory returns a live handle, a new one or one it has handed
\* out before; getBrowser records the release mode and returns the handle.
FactoryReturn(i, h) ==
    /\ calls[i].pc = "connecting"
    /\ browsers[h] \in {"unborn", "connected"}
    /\ calls' = [calls EXCEPT ![i] =
                   [CallNew EXCEPT !.pc = "done", !.handle = h]]
    /\ clients' = [clients EXCEPT ![h] =
                     IF calls[i].shouldClose THEN "close" ELSE "disconnect"]
    /\ browsers' = [browsers EXCEPT ![h] = "connected"]
    /\ byName' = IF "args" \in Effective(calls[i].arg).keys THEN byName
                 ELSE byName \cup {h}
    /\ UNCHANGED NotProvider

\* The browser factory fails and getBrowser rejects.
FactoryFail(i) ==
    /\ calls[i].pc = "connecting"
    /\ calls' = [calls EXCEPT ![i] = [CallNew EXCEPT !.pc = "failed"]]
    /\ UNCHANGED <<clients, browsers, byName>>
    /\ UNCHANGED NotProvider

\* What releaseBrowser calls on the handle.
ReleaseAction(isConnected, requiredAction) ==
    IF ~isConnected THEN None
    ELSE IF requiredAction = "close" THEN "close"
    ELSE "disconnect"

\* releaseBrowser(browser): browser.close() leaves the handle closed and
\* browser.disconnect() leaves it disconnected, neither connected any more.
ReleaseBrowser(h) ==
    /\ browsers[h] # "unborn"
    /\ LET did == ReleaseAction(connected(h), clients[h])
       IN  browsers' = [browsers EXCEPT ![h] =
                          CASE did = "close" -> "closed"
                            [] did = "disconnect" -> "disconnected"
                            [] OTHER -> @]
    /\ UNCHANGED <<calls, clients, byName>>
    /\ UNCHANGED NotProvider

\* The remote browser goes away: the handle reports itself not connected.
BrowserDrop(h) ==
    /\ connected(h)
    /\ browsers' = [browsers EXCEPT ![h] = "dropped"]
    /\ UNCHANGED <<calls, clients, byName>>
    /\ UNCHANGED NotProvider

\* The handle is unreachable and collected: its #clients entry vanishes with
\* it (a WeakMap), and the factory's next handle may take its place.
Collect(h) ==
    /\ browsers[h] \in {"dropped", "closed", "disconnected"}
    /\ \A i \in Calls : calls[i].handle # h
    /\ browsers' = [browsers EXCEPT ![h] = "unborn"]
    /\ clients' = [clients EXCEPT ![h] = None]
    /\ byName' = byName \ {h}
    /\ UNCHANGED <<calls>>
    /\ UNCHANGED NotProvider

(***************************************************************************)
(*                     The codec's round trip                              *)
(***************************************************************************)

MaxSmall == 64

Zeros(n) == [i \in 1..n |-> 0]

\* The 32 hexadecimal digits of a small number.
Small(n) == Zeros(UuidHexLen - 3) \o <<(n \div 256) % 16, (n \div 16) % 16, n % 16>>

\* The canonical textual form of 32 hexadecimal digits: lower case, 8-4-4-4-12.
Canonical(digits) ==
    LET hex == [i \in 1..Len(digits) |-> HexLower[digits[i] + 1]]
    IN  SubSeq(hex, 1, 8) \o <<"-">> \o SubSeq(hex, 9, 12) \o <<"-">>
        \o SubSeq(hex, 13, 16) \o <<"-">> \o SubSeq(hex, 17, 20) \o <<"-">>
        \o SubSeq(hex, 21, 32)

UuidDigits ==
    { Small(n) : n \in 0..MaxSmall }
    \cup { [i \in 1..UuidHexLen |-> d] : d \in 0..15 }
    \cup { <<d>> \o Zeros(UuidHexLen - 1) : d \in 1..15 }
    \cup { Zeros(k) \o [i \in 1..(UuidHexLen - k) |-> 15] : k \in {1, 7, 8, 9, 16, 31} }
    \cup { [i \in 1..UuidHexLen |-> (i - 1) % 16],
           [i \in 1..UuidHexLen |-> 15 - ((i - 1) % 16)],
           [i \in 1..UuidHexLen |-> (7 * i + 3) % 16] }

UuidInputs == { Canonical(ds) : ds \in UuidDigits }

ZeroUuid == Canonical(Zeros(UuidHexLen))

CodecIdle == [pc |-> "idle", uuid |-> <<>>, base62 |-> <<>>, back |-> <<>>]

NotCodec == <<http, baseUrl, server, call, lastInfo, defaultCfg, calls,
              clients, browsers, byName>>

\* A UUID is encoded.
Encode ==
    /\ codec.pc = "input"
    /\ codec' = [codec EXCEPT !.pc = "encoded",
                              !.base62 = encodeUuidToBase62(codec.uuid)]
    /\ UNCHANGED NotCodec

\* The encoding is decoded.
Decode ==
    /\ codec.pc = "encoded"
    /\ codec' = [codec EXCEPT !.pc = "decoded",
                              !.back = decodeBase62ToUuid(codec.base62)]
    /\ UNCHANGED NotCodec

(***************************************************************************)
(*                         Specifications                                  *)
(***************************************************************************)

DefaultBaseUrl == Url("http", "", "localhost", "39029")

ProviderIdle ==
    /\ defaultCfg = NameOnly("web")
    /\ calls = [i \in Calls |-> CallNew]
    /\ clients = [h \in Handles |-> None]
    /\ browsers = [h \in Handles |-> "unborn"]
    /\ byName = {}

ClientIdle ==
    /\ baseUrl = DefaultBaseUrl
    /\ server = [info |-> ServerInfo(NoProxy, FALSE, DirectIp), up |-> TRUE]
    /\ call = CallIdle
    /\ lastInfo = NothingSeen

\* The codec applied to canonical UUIDs.
InitCodec ==
    /\ codec \in { [CodecIdle EXCEPT !.pc = "input", !.uuid = u] : u \in UuidInputs }
    /\ http = HttpIdle
    /\ ClientIdle
    /\ ProviderIdle

NextCodec == Encode \/ Decode

SpecCodec == InitCodec /\ [][NextCodec]_vars

\* The response handlers applied to responses.
InitHttp ==
    /\ codec = CodecIdle
    /\ http = HttpIdle
    /\ ClientIdle
    /\ ProviderIdle

NextHttp == HttpReceive \/ HttpHandle

SpecHttp == InitHttp /\ [][NextHttp]_vars

\* A BrowserClient against a server whose topology changes.
InitClient ==
    /\ codec = CodecIdle
    /\ http = HttpIdle
    /\ baseUrl \in BaseUrls
    /\ server \in ServerStates
    /\ call = CallIdle
    /\ lastInfo = NothingSeen
    /\ ProviderIdle

NextClient ==
    \/ \E op \in ClientOps, c \in Containers : Invoke(op, c)
    \/ ServerInfoRespond
    \/ UrlResume
    \/ serverScoresResume
    \/ ScoresRespond
    \/ ServerChange

SpecClient == InitClient /\ [][NextClient]_vars

\* A RemoteBrowserProvider: acquisitions and releases in any order.
Init ==
    /\ codec = CodecIdle
    /\ http = HttpIdle
    /\ baseUrl = DefaultBaseUrl
    /\ server = [info |-> ServerInfo(NoProxy, FALSE, DirectIp), up |-> TRUE]
    /\ call = CallIdle
    /\ lastInfo = NothingSeen
    /\ defaultCfg \in DefaultConfigs
    /\ calls = [i \in Calls |-> CallNew]
    /\ clients = [h \in Handles |-> None]
    /\ browsers = [h \in Handles |-> "unborn"]
    /\ byName = {}

Next ==
    \/ \E i \in Calls, arg \in ArgConfigs : GetBrowser(i, arg)
    \/ \E i \in Calls, found \in BOOLEAN : ResolveReturn(i, found)
    \/ \E i \in Calls, srv \in ProviderServers : RemoteUrlReturn(i, srv)
    \/ \E i \in Calls, running \in BOOLEAN : WaitReturn(i, running)
    \/ \E i \in Calls, h \in Handles : FactoryReturn(i, h)
    \/ \E i \in Calls : FactoryFail(i)
    \/ \E h \in Handles : ReleaseBrowser(h)
    \/ \E h \in Handles : BrowserDrop(h)
    \/ \E h \in Handles : Collect(h)

Spec == Init /\ [][Next]_vars


(***************************************************************************)
(*                             Properties                                  *)
(***************************************************************************)

ModeOf(config) == IF "args" \in config.keys THEN "close" ELSE "disconnect"

\* C1: whenever getBrowser returns a handle, the release mode then recorded
\* for that handle is "close" if the effective config (the argument, else
\* the stored default) is create details and "disconnect" if it is a
\* name-only reference, whatever acquisitions and releases came before.
C1_ModeFollowsConfig ==
    [][\A i \in Calls :
          (calls[i].pc = "connecting" /\ calls'[i].pc = "done")
          => clients'[calls'[i].handle] =
                ModeOf(IF calls[i].arg = NoConfig THEN defaultCfg ELSE calls[i].arg)
      ]_vars

\* A getBrowser() without argument has returned a handle under a create-details
\* default, recorded as "close", after another handle has been released.
C1_Witness ==
    \E i \in Calls, h \in Handles :
        /\ calls[i].pc = "done"
        /\ calls[i].handle # h
        /\ "args" \in defaultCfg.keys
        /\ clients[calls[i].handle] = "close"
        /\ browsers[h] \in {"closed", "disconnected"}

\* C2: releaseBrowser calls neither close nor disconnect on a handle that is
\* not connected; on a connected handle it calls close if the recorded mode
\* is "close" and disconnect if it is "disconnect"; so a handle acquired by
\* name is never closed by a release, and releasing a released handle again
\* does nothing.
C2_ReleaseFollowsMode ==
    [][\A h \in Handles :
          /\ (browsers'[h] = "closed" /\ browsers[h] # "closed")
             => (browsers[h] = "connected" /\ clients[h] = "close" /\ h \notin byName)
          /\ (browsers'[h] = "disconnected" /\ browsers[h] # "disconnected")
             => (browsers[h] = "connected" /\ clients[h] = "disconnect")
      ]_vars

Kind(arg) == IF "args" \in (IF arg = NoConfig THEN defaultCfg ELSE arg).keys
             THEN "create" ELSE "get"

NameFor(arg) == (IF arg = NoConfig THEN defaultCfg ELSE arg).name

StepsInOrder(f) ==
    /\ f.pc = "resolving" =>
          /\ f.trace = <<Kind(f.arg)>>
          /\ f.request.op = Kind(f.arg)
          /\ f.request.name = NameFor(f.arg)
          /\ (f.request.op = "create") =>
                 ("coordinatorUrl" \in f.request.keys
                  /\ f.request.coordinatorUrl = CoordinatorUrl)
    /\ f.pc = "locating" =>
          /\ f.trace = <<Kind(f.arg), "remoteUrl">>
          /\ f.container.name = NameFor(f.arg)
    /\ f.pc = "waiting" =>
          /\ f.trace = <<Kind(f.arg), "remoteUrl", "waitForServiceStatus">>
          /\ f.waitArgs = <<NameFor(f.arg), "remote", "running">>
          /\ \E srv \in ProviderServers : remoteUrl(srv.info, f.container).url = f.url
    /\ f.pc = "connecting" =>
          /\ f.trace = <<Kind(f.arg), "remoteUrl", "waitForServiceStatus",
                         "running", "fromFactory">>
          /\ f.url # NoUrl
          /\ f.factoryUrl = f.url
    /\ f.pc \in {"idle", "failed"} => f.handle = NoHandle
    /\ f.pc # "connecting" => f.factoryUrl = NoUrl

\* C3: getBrowser resolves the container by create (create details, with the
\* coordinator's URL as coordinatorUrl) or by get (name only), then computes
\* the remote URL, then waits for "remote" to be "running" on the config's
\* name, then calls the factory with that URL; the factory is never called and
\* no handle is returned or recorded before the wait has completed, and after
\* a failed step nothing more runs and no release mode is recorded.
C3_StepsInOrder ==
    /\ [](\A i \in Calls : StepsInOrder(calls[i]))
    /\ [][\A i \in Calls :
             /\ (calls'[i].pc = "done" /\ calls'[i] # calls[i])
                => calls[i].pc = "connecting"
             /\ (calls'[i].pc = "failed" /\ calls[i].pc # "failed")
                => clients' = clients
             /\ (calls[i].pc = "failed" /\ calls'[i] # calls[i])
                => calls'[i].pc = "resolving"
             /\ (\E h \in Handles : clients'[h] \notin {clients[h], None})
                => \E j \in Calls : calls[j].pc = "connecting" /\ calls'[j].pc = "done"
      ]_vars

\* A getBrowser() under a create-details default is about to call the factory,
\* after the wait, with the URL computed for the created container, while an
\* earlier acquisition's handle is still connected.
C3_Witness ==
    \E i \in Calls, h \in Handles :
        /\ calls[i].pc = "connecting"
        /\ calls[i].arg = NoConfig
        /\ calls[i].request.op = "create"
        /\ calls[i].request.coordinatorUrl = CoordinatorUrl
        /\ calls[i].trace[4] = "running"
        /\ calls[i].factoryUrl = calls[i].url
        /\ browsers[h] = "connected"

\* The precondition an operation checks on the ServerInfo it was given.
PreconditionFails(op, info) ==
    CASE op \in {"vncUrl", "remoteUrl"} -> ~info.proxy.present /\ info.ip = None
      [] op = "sshUrl" -> info.proxy.present \/ info.ip = None
      [] OTHER -> ~info.proxy.present

\* C4, as stated: a precondition failure (no direct IP without proxy info,
\* sshUrl on a proxied server, serverScores on a server without proxy
\* support) is raised as a plain error without any request having been made.
C4_NoRequestBeforeFailure ==
    (call.pc = "done" /\ call.outcome.kind = "Error") => call.reqs = <<>>

\* C4, amended: a precondition failure is raised as a plain error after the
\* operation's one GET / (its serverInfo request) and before any other
\* request, exactly when the ServerInfo it received fails the precondition.
C4_FailureAfterServerInfoOnly ==
    call.pc = "done" =>
        /\ call.outcome.kind \notin {"Error"} \/ call.reqs = <<"GET /">>
        /\ (handleJsonResponse(call.response).kind = "value") =>
               ((call.outcome.kind = "Error")
                  <=> PreconditionFails(call.op, call.response.body.parse.info))

\* serverScores has failed on a server without proxy support.
C4_Witness ==
    /\ call.pc = "done"
    /\ call.op = "serverScores"
    /\ call.outcome.kind = "Error"
    /\ call.reqs = <<"GET /">>

IsJson(ctype) == ctype # <<>> /\ ctype[1] = "application/json"

\* C5: a non-2xx response makes the call fail with a BrowserClientError whose
\* message is the body's "error" member when the content type is JSON and the
\* body is {"error": X}, and the raw body text when the content type is not
\* JSON or absent; no 2xx response raises a BrowserClientError and no non-2xx
\* response yields a success value.
C5_ErrorFromContentType ==
    http.pc = "done" =>
        LET r == http.response
            o == http.outcome
            success == r.status >= 200 /\ r.status < 300
        IN  /\ ~success =>
                  /\ o.kind = "BrowserClientError"
                  /\ (IsJson(r.ctype) /\ r.body.parse.ok /\ r.body.parse.t = "object"
                        /\ r.body.parse.error # None)
                     => o.message = r.body.parse.error
                  /\ ~IsJson(r.ctype) => o.message = r.body.raw
            /\ success => o.kind # "BrowserClientError"

\* C6: vncUrl, remoteUrl and sshUrl each issue exactly one GET / and decide
\* nothing before its answer; the URL or failure they end with is the one the
\* policy gives for the ServerInfo returned to that very call.
C6_FreshServerInfo ==
    call.op \in UrlOps =>
        /\ call.pc \in {"awaitInfo", "gotInfo"} =>
               (call.reqs = <<"GET /">> /\ call.outcome = Pending)
        /\ call.pc = "done" =>
               /\ call.reqs = <<"GET /">>
               /\ call.outcome =
                     (LET got == handleJsonResponse(call.response)
                      IN  IF got.kind # "value" THEN got
                          ELSE UrlPolicy(call.op, got.info, call.container))

\* A URL has been returned for a ServerInfo that differs both from the one the
\* previous call was given and from what the server has become since.
C6_Witness ==
    /\ call.pc = "done"
    /\ call.op \in UrlOps
    /\ call.outcome.kind = "url"
    /\ lastInfo.seen
    /\ lastInfo.info # call.response.body.parse.info
    /\ server.info # call.response.body.parse.info

\* C7: the release mode recorded for a handle never changes while the handle
\* lives, whatever getBrowser or releaseBrowser calls follow.
C7_ModeNeverChanges ==
    [][\A h \in Handles :
          (clients[h] # None /\ browsers'[h] # "unborn") => clients'[h] = clients[h]
      ]_vars

\* C8: vncUrl with proxy info gives ws/wss by secure and host
\* vnc-{name}{suffix}; without proxy info and with a direct IP it gives ws/wss
\* by secure, the direct IP as hostname and the container's VNC port as port,
\* whatever the base URL; without both it fails.
C8_VncUrlPolicy ==
    (call.pc = "done" /\ call.op = "vncUrl"
       /\ handleJsonResponse(call.response).kind = "value") =>
        LET info == call.response.body.parse.info
            o == call.outcome
            scheme == IF info.secure THEN "wss" ELSE "ws"
        IN  /\ info.proxy.present =>
                  /\ o.kind = "url"
                  /\ o.url.scheme = scheme
                  /\ o.url.hostname = "vnc-" \o call.container.name \o info.proxy.suffix
                  /\ o.url.port = ""
            /\ (~info.proxy.present /\ info.ip # None) =>
                  /\ o.kind = "url"
                  /\ o.url.scheme = scheme
                  /\ o.url.hostname = info.ip
                  /\ EffectivePort(o.url) = call.container.services.vnc
            /\ (~info.proxy.present /\ info.ip = None) => o.kind # "url"

\* C9: sshUrl fails whenever the ServerInfo has proxy info; in direct mode it
\* returns ssh://runner@{direct IP}:{SSH port}, for an http or https base URL.
C9_SshUrlPolicy ==
    (call.pc = "done" /\ call.op = "sshUrl"
       /\ handleJsonResponse(call.response).kind = "value") =>
        LET info == call.response.body.parse.info
            o == call.outcome
        IN  /\ info.proxy.present => o.kind = "Error"
            /\ (~info.proxy.present /\ info.ip # None) =>
                  /\ o.kind = "url"
                  /\ o.url.scheme = "ssh"
                  /\ o.url.username = "runner"
                  /\ o.url.hostname = info.ip
                  /\ EffectivePort(o.url) = call.container.services.ssh

\* C10: decoding the encoding of a canonical UUID gives the UUID back, and
\* the all-zero UUID is encoded as "0".
C10_RoundTrip ==
    /\ codec.pc = "decoded" => codec.back = codec.uuid
    /\ (codec.pc \in {"encoded", "decoded"} /\ codec.uuid = ZeroUuid)
          => codec.base62 = <<"0">>

\* The all-zero UUID has gone through "0" and come back.
C10_Witness ==
    /\ codec.pc = "decoded"
    /\ codec.uuid = ZeroUuid
    /\ codec.base62 = <<"0">>
    /\ codec.back = ZeroUuid

=============================================================================
